---------------------------- MODULE Spec2Model ----------------------------
(***************************************************************************)
(* Model of MATF.py, the "Multi-Agent Task Force: Mission Sustainability"  *)
(* Streamlit page.  Streamlit executes the script top to bottom once per   *)
(* page load and again after every widget interaction, so one "script run" *)
(* is: load the environment, bootstrap the sample dataset, build the four  *)
(* agents and the team, map the sidebar choice, and handle the Launch      *)
(* button.  The agent runtime (agno) and the dataset file are external:    *)
(* the result of selected_agent.run(topic) and the contents of the file    *)
(* are nondeterministic inputs.                                            *)
(* Display-only output that never feeds back into the script (CSS, title,  *)
(* sidebar clock, random sustainability fact, footer) is not state.        *)
(***************************************************************************)
EXTENDS Integers, Sequences, FiniteSets, TLC

(***************************************************************************)
(* Bounds of the model.                                                    *)
(***************************************************************************)
MaxRuns == 4          \* script runs (page load + interactions) explored
MaxTopicLen == 2      \* characters in the mission target text area
MaxExternal == 1      \* changes made to the dataset file by other programs

(***************************************************************************)
(* Option values: a Python name that is not bound yet is the empty set,    *)
(* a bound one is the singleton of its value.                              *)
(***************************************************************************)
Unbound == {}

Some(v) == {v}

The(opt) == CHOOSE v \in opt : TRUE

(***************************************************************************)
(* Sequences helpers.                                                      *)
(***************************************************************************)
SeqsUpTo(S, n) == UNION {[1..k -> S] : k \in 0..n}

Range(s) == {s[i] : i \in 1..Len(s)}

RECURSIVE Sum(_)
Sum(s) == IF s = <<>> THEN 0 ELSE Head(s) + Sum(Tail(s))

(***************************************************************************)
(* The five radio labels, in the order the sidebar offers them.  Each      *)
(* label of the source starts with an emoji, which is left out here: the   *)
(* labels stay pairwise distinct.                                          *)
(***************************************************************************)
NewsAnalystLabel == "News Analyst"

DataAnalystLabel == "Data Analyst"

PolicyReviewerLabel == "Policy Reviewer"

InnovationsScoutLabel == "Innovations Scout"

FullTaskForceLabel == "Full Task Force"

RadioOptions ==
    <<NewsAnalystLabel, DataAnalystLabel, PolicyReviewerLabel,
      InnovationsScoutLabel, FullTaskForceLabel>>

LeafLabels ==
    {NewsAnalystLabel, DataAnalystLabel, PolicyReviewerLabel, InnovationsScoutLabel}

\* Values a front end other than the radio could hand to the mapping.
ForeignChoices == {"", "Data Scientist"}

ChoiceUniverse == Range(RadioOptions) \cup ForeignChoices

(***************************************************************************)
(* Mission target text.  str.strip() removes leading and trailing          *)
(* whitespace.                                                             *)
(***************************************************************************)
Whitespace == {" ", "\n"}

TopicChars == Whitespace \cup {"K"}

Topics == SeqsUpTo(TopicChars, MaxTopicLen)

RECURSIVE LStrip(_)
LStrip(s) ==
    IF s # <<>> /\ Head(s) \in Whitespace THEN LStrip(Tail(s)) ELSE s

RECURSIVE RStrip(_)
RStrip(s) ==
    IF s # <<>> /\ s[Len(s)] \in Whitespace
    THEN RStrip(SubSeq(s, 1, Len(s) - 1))
    ELSE s

\* Mutant: the topic is tested as typed, `if topic:`.
NoStrip(s) == s

Strip(s) == RStrip(LStrip(s))

(***************************************************************************)
(* Python exceptions: a class and a message.  `except Exception` catches   *)
(* exactly the classes that derive from Exception.                         *)
(***************************************************************************)
ExcParent ==
    [c \in {"Exception", "TypeError", "RuntimeError", "ValueError", "OSError",
            "ConnectionError", "FileNotFoundError", "ParserError"} |->
        CASE c = "Exception" -> "BaseException"
          [] c = "TypeError" -> "Exception"
          [] c = "RuntimeError" -> "Exception"
          [] c = "ValueError" -> "Exception"
          [] c = "OSError" -> "Exception"
          [] c = "ConnectionError" -> "OSError"
          [] c = "FileNotFoundError" -> "OSError"
          [] c = "ParserError" -> "ValueError"]

RECURSIVE IsSubclass(_, _)
IsSubclass(c, base) ==
    \/ c = base
    \/ c \in DOMAIN ExcParent /\ IsSubclass(ExcParent[c], base)

Exc(cls, msg) == [cls |-> cls, msg |-> msg]


(***************************************************************************)
(* Data frames and the dataset file.  A data frame has its column names in *)
(* order and one sequence of values per column; a CSV file is a header     *)
(* line and rows of cells.  DataFrame.to_csv(index=False) writes the       *)
(* frame row by row, pd.read_csv reads the rows back into columns.         *)
(***************************************************************************)
df_mock ==
    [columns |-> <<"Year", "PM2.5", "CO2">>,
     data |-> [c \in {"Year", "PM2.5", "CO2"} |->
                 CASE c = "Year" -> <<2021, 2022, 2023>>
                   [] c = "PM2.5" -> <<55, 48, 42>>
                   [] c = "CO2" -> <<400, 395, 390>>]]

NRows(df) == IF df.columns = <<>> THEN 0 ELSE Len(df.data[df.columns[1]])

AbsentFile == [exists |-> FALSE, parses |-> FALSE, header |-> <<>>, rows |-> <<>>]

CorruptFile == [exists |-> TRUE, parses |-> FALSE, header |-> <<>>, rows |-> <<>>]

to_csv(df) ==
    [exists |-> TRUE, parses |-> TRUE, header |-> df.columns,
     rows |-> [i \in 1..NRows(df) |->
                 [j \in 1..Len(df.columns) |-> df.data[df.columns[j]][i]]]]

\* A frame with some of the sample's columns and its first n rows.
SubFrame(cols, n) ==
    [columns |-> cols,
     data |-> [c \in Range(cols) |-> SubSeq(df_mock.data[c], 1, n)]]

\* The files another program may have put at data_path.
ForeignFiles ==
    {CorruptFile, to_csv(SubFrame(df_mock.columns, 1))}
    \cup {to_csv(SubFrame(cols, NRows(df_mock))) :
            cols \in {<<"Year", "PM2.5", "CO2">>, <<"Year", "PM2.5">>,
                      <<"Year", "CO2">>, <<"Year">>}}

FileStates == {AbsentFile} \cup ForeignFiles

\* The outcome of a call: a returned value or a raised exception.
Return(v) == [raised |-> FALSE, value |-> v, exc |-> Exc("", "")]

Raise(e) == [raised |-> TRUE, value |-> <<>>, exc |-> e]

ColumnIndex(header, c) == CHOOSE j \in 1..Len(header) : header[j] = c

read_csv(f) ==
    IF ~f.exists THEN Raise(Exc("FileNotFoundError", "No such file or directory"))
    ELSE IF ~f.parses THEN Raise(Exc("ParserError", "Error tokenizing data"))
    ELSE Return([columns |-> f.header,
                 data |-> [c \in Range(f.header) |->
                             [i \in 1..Len(f.rows) |->
                                 f.rows[i][ColumnIndex(f.header, c)]]]])

(***************************************************************************)
(* Text is a sequence of pieces.  format(x, ".2f") of the mean sum/n of    *)
(* integers: the value in hundredths, rounded to nearest (with fewer than  *)
(* 8 rows no mean lies halfway between two hundredths), then its digits.   *)
(***************************************************************************)
Digits == <<"0", "1", "2", "3", "4", "5", "6", "7", "8", "9">>

RECURSIVE IntToText(_)
IntToText(k) ==
    IF k < 10 THEN <<Digits[k + 1]>>
    ELSE IntToText(k \div 10) \o <<Digits[(k % 10) + 1]>>

Hundredths(sum, n) == (200 * sum + n) \div (2 * n)

FormatMean2f(values) ==
    LET h == Hundredths(Sum(values), Len(values))
    IN IntToText(h \div 100) \o <<".">>
         \o <<Digits[((h % 100) \div 10) + 1], Digits[(h % 10) + 1]>>

\* df.describe(include='all').to_string(), cut to its header and count row.
Describe(df) ==
    df.columns \o <<"count">>
      \o [j \in 1..Len(df.columns) |-> Digits[NRows(df) + 1]]

PMTrend(df) == <<"Average PM2.5: ">> \o FormatMean2f(df.data["PM2.5"]) \o <<" ug/m3">>

CO2Trend(df) == <<"Average CO2: ">> \o FormatMean2f(df.data["CO2"]) \o <<" ppm">>

\* "\n".join(trends)
RECURSIVE JoinLines(_)
JoinLines(lines) ==
    IF lines = <<>> THEN <<>>
    ELSE IF Len(lines) = 1 THEN lines[1]
    ELSE lines[1] \o <<"\n">> \o JoinLines(Tail(lines))

HasPMColumn(df) == "PM2.5" \in Range(df.columns)

\* Mutant: the column name misspelt in the test.
HasCO2ColumnTypo(df) == "Co2" \in Range(df.columns)

HasCO2Column(df) == "CO2" \in Range(df.columns)

Trends(df) ==
    (IF HasPMColumn(df) THEN <<PMTrend(df)>> ELSE <<>>)
      \o (IF HasCO2Column(df) THEN <<CO2Trend(df)>> ELSE <<>>)

\* The report text; [fence] stands for the Markdown code fence.
analyze_dataset(f) ==
    LET r == read_csv(f)
    IN IF r.raised THEN r
       ELSE Return(<<"Dataset Summary:", "[fence]">> \o Describe(r.value)
                     \o <<"[fence]", "Environmental Trends:">>
                     \o JoinLines(Trends(r.value)))


(***************************************************************************)
(* Agent and team configurations.  built_in_run is the object's identity:  *)
(* the script run whose Agent(...) or Team(...) call constructed it.  A    *)
(* leaf agent has no members and no mode; instructions is a list of        *)
(* strings for both kinds.                                                 *)
(***************************************************************************)
ModelId == "qwen/qwen3-32b"

Agent(name, role, tools, instructions, show_tool_calls, run) ==
    [kind |-> "Agent", name |-> name, role |-> role, model |-> ModelId,
     tools |-> tools, instructions |-> <<instructions>>,
     show_tool_calls |-> show_tool_calls, markdown |-> TRUE,
     mode |-> "", members |-> <<>>, built_in_run |-> run]

Team(name, mode, members, instructions, run) ==
    [kind |-> "Team", name |-> name, role |-> "", model |-> ModelId,
     tools |-> <<>>, instructions |-> instructions,
     show_tool_calls |-> TRUE, markdown |-> TRUE,
     mode |-> mode, members |-> members, built_in_run |-> run]

NewsAnalystAgent(run) ==
    Agent("News Analyst", "Track recent news on sustainability initiatives",
          <<"GoogleSearchTools">>,
          "Find the most relevant city-level green projects from the past year and summarize key findings.",
          TRUE, run)

DataAnalystAgent(run) ==
    Agent("Data Analyst", "Analyze environmental datasets", <<>>,
          "Read the provided air quality dataset and summarize trends.",
          FALSE, run)

PolicyReviewerAgent(run) ==
    Agent("Policy Reviewer", "Summarize government sustainability policies",
          <<"GoogleSearchTools">>,
          "Find official city government sources and summarize their recent sustainability policy changes.",
          TRUE, run)

InnovationScoutAgent(run) ==
    Agent("Innovations Scout", "Discover cutting-edge green tech ideas",
          <<"HackerNewsTools", "GoogleSearchTools">>,
          "Search for innovative urban sustainability technologies and describe them in detail.",
          TRUE, run)

\* Mutant: two members exchanged in the list.
TeamMembersSwapped(na, da, pr, sc) == <<na, pr, da, sc>>

TeamMembers(na, da, pr, sc) == <<na, da, pr, sc>>

SustainabilityTeam(na, da, pr, sc, run) ==
    Team("Sustainability Task Force", "collaborate", TeamMembers(na, da, pr, sc),
         <<"Collaborate to produce a comprehensive sustainability proposal for the city.">>,
         run)

(***************************************************************************)
(* What selected_agent.run(topic) can do: return None, an object without   *)
(* a content attribute, or an object whose content is None or a string; or *)
(* signal failure by raising an exception derived from Exception.          *)
(***************************************************************************)
PyNone == [is_none |-> TRUE, s |-> ""]

PyStr(s) == [is_none |-> FALSE, s |-> s]

\* str(v), as an f-string formats a value
PyFormat(v) == IF v.is_none THEN "None" ELSE v.s

NoneResult == [is_none |-> TRUE, has_content |-> FALSE, content |-> PyNone]

BareObject == [is_none |-> FALSE, has_content |-> FALSE, content |-> PyNone]

RunResponse(content) == [is_none |-> FALSE, has_content |-> TRUE, content |-> content]

ContentValues == {PyNone, PyStr(""), PyStr("X"), PyStr("Y")}

Results == {NoneResult, BareObject} \cup {RunResponse(c) : c \in ContentValues}

RunFailures == {Exc("RuntimeError", "boom"), Exc("ConnectionError", "timed out")}

RunReturn(r) == [raised |-> FALSE, value |-> r, exc |-> Exc("", "")]

RunRaise(e) == [raised |-> TRUE, value |-> NoneResult, exc |-> e]

RunOutcomes == {RunReturn(r) : r \in Results} \cup {RunRaise(e) : e \in RunFailures}

\* bool(result): None is false, an object is true
Truthy(r) == ~r.is_none

\* hasattr(result, "content")
HasContentAttr(r) == r.has_content

(***************************************************************************)
(* What the page shows: each element is one st.info / st.markdown /        *)
(* st.warning / st.error call of the Launch handler.                       *)
(***************************************************************************)
Shown(st, bclass, bicon, title, text) ==
    [st |-> st, banner_class |-> bclass, banner_icon |-> bicon,
     title |-> title, text |-> text]

MissionStartInfo == Shown("info", "", "", <<>>, <<"Mission Start Time: ">>)

ReportBlock(bclass, bicon, choice, text) ==
    Shown("markdown", bclass, bicon, <<choice, " Report">>, text)

NoContentWarning ==
    Shown("warning", "", "", <<>>, <<"No content returned from the agent.">>)

MissionError(e) == Shown("error", "", "", <<>>, <<"Mission Error: ", e.msg>>)

TargetWarning ==
    Shown("warning", "", "", <<>>, <<"Please specify your mission target first.">>)


(***************************************************************************)
(* State.                                                                  *)
(***************************************************************************)
VARIABLES
    pc,                  \* where the current script run is
    runs,                \* script runs started so far
    env_key,             \* whether GROQ_API_KEY resolves to a value
    data_file,           \* the file at data_path
    external,            \* changes other programs made to that file
    news_analyst, data_analyst, policy_reviewer, innovation_scout,
    sustainability_team, \* the module-level names of the script
    agent_choice,        \* the sidebar radio's value
    topic,               \* the text area's value
    clicked,             \* st.button's value in this run
    selected_agent, banner_class, banner_icon,
    rendered,            \* what the Launch handler has shown in this run
    run_calls,           \* calls of selected_agent.run made in this run
    file_ops,            \* reads and writes of data_file made in this run
    uncaught             \* the exception that ended this run, if any

registry == <<news_analyst, data_analyst, policy_reviewer, innovation_scout,
              sustainability_team>>

widgets == <<agent_choice, topic, clicked>>

mapped == <<selected_agent, banner_class, banner_icon>>

effects == <<rendered, run_calls, file_ops, uncaught>>

vars == <<pc, runs, env_key, data_file, external, registry, widgets, mapped,
          effects>>

(***************************************************************************)
(* The mapping of the radio value to a configuration and its banner.       *)
(***************************************************************************)
Mapping(sel, bclass, bicon) ==
    [selected_agent |-> sel, banner_class |-> bclass, banner_icon |-> bicon]

\* Mutant: the Policy Reviewer branch assigns the innovation scout.
MapChoiceSwapped(choice, na, da, pr, sc, team) ==
    IF choice = NewsAnalystLabel
    THEN Mapping(na, "news-analyst-banner", "newspaper")
    ELSE IF choice = DataAnalystLabel
    THEN Mapping(da, "data-analyst-banner", "bar chart")
    ELSE IF choice = PolicyReviewerLabel
    THEN Mapping(sc, "policy-reviewer-banner", "scroll")
    ELSE IF choice = InnovationsScoutLabel
    THEN Mapping(sc, "innovation-scout-banner", "light bulb")
    ELSE Mapping(team, "sustainability-team-banner", "globe")

\* Mutant: a fifth elif for the team label and no else branch, so that an
\* unmatched value leaves nothing selected.
MapChoiceStrict(choice, na, da, pr, sc, team) ==
    IF choice = NewsAnalystLabel
    THEN Mapping(na, "news-analyst-banner", "newspaper")
    ELSE IF choice = DataAnalystLabel
    THEN Mapping(da, "data-analyst-banner", "bar chart")
    ELSE IF choice = PolicyReviewerLabel
    THEN Mapping(pr, "policy-reviewer-banner", "scroll")
    ELSE IF choice = InnovationsScoutLabel
    THEN Mapping(sc, "innovation-scout-banner", "light bulb")
    ELSE IF choice = FullTaskForceLabel
    THEN Mapping(team, "sustainability-team-banner", "globe")
    ELSE Mapping(Unbound, "", "")

MapChoice(choice, na, da, pr, sc, team) ==
    IF choice = NewsAnalystLabel
    THEN Mapping(na, "news-analyst-banner", "newspaper")
    ELSE IF choice = DataAnalystLabel
    THEN Mapping(da, "data-analyst-banner", "bar chart")
    ELSE IF choice = PolicyReviewerLabel
    THEN Mapping(pr, "policy-reviewer-banner", "scroll")
    ELSE IF choice = InnovationsScoutLabel
    THEN Mapping(sc, "innovation-scout-banner", "light bulb")
    ELSE Mapping(team, "sustainability-team-banner", "globe")

(***************************************************************************)
(* The Launch Mission handler.                                             *)
(***************************************************************************)
\* Mutant: `except ValueError as e`.
CatchesValueError(e) == IsSubclass(e.cls, "ValueError")

\* Mutant: `except RuntimeError as e`.
CatchesRuntimeError(e) == IsSubclass(e.cls, "RuntimeError")

\* except Exception as e
Catches(e) == IsSubclass(e.cls, "Exception")

\* Mutant: the two branches of the result check exchanged.
ShowsReportNegated(result) == ~(Truthy(result) /\ HasContentAttr(result))

\* if result and hasattr(result, "content")
ShowsReport(result) == Truthy(result) /\ HasContentAttr(result)

RunCall(sel, t, out) == [target |-> sel, arg |-> t, outcome |-> out]

\* The body of the try statement: what it shows, calls, reads, and raises.
TryBody(choice, sel, bclass, bicon, t, f, out) ==
    IF choice = DataAnalystLabel
    THEN LET r == analyze_dataset(f)
         IN [shown |-> IF r.raised THEN <<>>
                       ELSE <<ReportBlock(bclass, bicon, choice, r.value)>>,
             run_calls |-> <<>>,
             file_ops |-> <<"read">>,
             raised |-> r.raised, exc |-> r.exc]
    ELSE [shown |-> IF out.raised THEN <<>>
                    ELSE IF ShowsReport(out.value)
                    THEN <<ReportBlock(bclass, bicon, choice,
                                       <<PyFormat(out.value.content)>>)>>
                    ELSE <<NoContentWarning>>,
          run_calls |-> <<RunCall(sel, t, out)>>,
          file_ops |-> <<>>,
          raised |-> out.raised, exc |-> out.exc]

Handled(shown, calls, ops, escaped) ==
    [shown |-> shown, run_calls |-> calls, file_ops |-> ops, uncaught |-> escaped]

LaunchHandler(choice, sel, bclass, bicon, t, f, out) ==
    IF Strip(t) # <<>>
    THEN LET b == TryBody(choice, sel, bclass, bicon, t, f, out)
         IN IF b.raised /\ Catches(b.exc)
            THEN Handled(<<MissionStartInfo>> \o b.shown \o <<MissionError(b.exc)>>,
                         b.run_calls, b.file_ops, Unbound)
            ELSE IF b.raised
            THEN Handled(<<MissionStartInfo>> \o b.shown, b.run_calls, b.file_ops,
                         Some(b.exc))
            ELSE Handled(<<MissionStartInfo>> \o b.shown, b.run_calls, b.file_ops,
                         Unbound)
    ELSE Handled(<<TargetWarning>>, <<>>, <<>>, Unbound)

(***************************************************************************)
(* One script run, top to bottom.                                          *)
(***************************************************************************)
Init ==
    /\ pc = "env"
    /\ runs = 1
    /\ env_key \in BOOLEAN
    /\ data_file \in FileStates
    /\ external = 0
    /\ news_analyst = Unbound
    /\ data_analyst = Unbound
    /\ policy_reviewer = Unbound
    /\ innovation_scout = Unbound
    /\ sustainability_team = Unbound
    /\ agent_choice = RadioOptions[1]
    /\ topic = <<>>
    /\ clicked = FALSE
    /\ selected_agent = Unbound
    /\ banner_class = ""
    /\ banner_icon = ""
    /\ rendered = <<>>
    /\ run_calls = <<>>
    /\ file_ops = <<>>
    /\ uncaught = Unbound

\* os.environ["GROQ_API_KEY"] = os.getenv("GROQ_API_KEY"): a None value is a
\* TypeError, which nothing catches.
LoadEnv ==
    /\ pc = "env"
    /\ IF env_key
       THEN pc' = "bootstrap" /\ UNCHANGED uncaught
       ELSE pc' = "idle"
            /\ uncaught' = Some(Exc("TypeError", "str expected, not NoneType"))
    /\ UNCHANGED <<runs, env_key, data_file, external, registry, widgets, mapped,
                   rendered, run_calls, file_ops>>

\* Mutant: the sample is written on every run, without the exists() test.
BootstrapFileAlways(f) == to_csv(df_mock)

BootstrapFile(f) == IF ~f.exists THEN to_csv(df_mock) ELSE f

BootstrapOps(f) == IF ~f.exists THEN <<"write">> ELSE <<>>

Bootstrap ==
    /\ pc = "bootstrap"
    /\ data_file' = BootstrapFile(data_file)
    /\ file_ops' = file_ops \o BootstrapOps(data_file)
    /\ pc' = "agents"
    /\ UNCHANGED <<runs, env_key, external, registry, widgets, mapped, rendered,
                   run_calls, uncaught>>

AgentDefinitions ==
    /\ pc = "agents"
    /\ news_analyst' = Some(NewsAnalystAgent(runs))
    /\ data_analyst' = Some(DataAnalystAgent(runs))
    /\ policy_reviewer' = Some(PolicyReviewerAgent(runs))
    /\ innovation_scout' = Some(InnovationScoutAgent(runs))
    /\ pc' = "team"
    /\ UNCHANGED <<runs, env_key, data_file, external, sustainability_team,
                   widgets, mapped, effects>>

TaskForceTeam ==
    /\ pc = "team"
    /\ sustainability_team' =
           Some(SustainabilityTeam(The(news_analyst), The(data_analyst),
                                   The(policy_reviewer), The(innovation_scout),
                                   runs))
    /\ pc' = "sidebar"
    /\ UNCHANGED <<runs, env_key, data_file, external, news_analyst, data_analyst,
                   policy_reviewer, innovation_scout, widgets, mapped, effects>>

MapAgentChoice ==
    /\ pc = "sidebar"
    /\ LET m == MapChoice(agent_choice, news_analyst, data_analyst,
                          policy_reviewer, innovation_scout, sustainability_team)
       IN /\ selected_agent' = m.selected_agent
          /\ banner_class' = m.banner_class
          /\ banner_icon' = m.banner_icon
    /\ pc' = "launch"
    /\ UNCHANGED <<runs, env_key, data_file, external, registry, widgets, effects>>

LaunchMission ==
    /\ pc = "launch"
    /\ IF clicked
       THEN \E out \in RunOutcomes :
              LET h == LaunchHandler(agent_choice, selected_agent, banner_class,
                                     banner_icon, topic, data_file, out)
              IN /\ rendered' = rendered \o h.shown
                 /\ run_calls' = run_calls \o h.run_calls
                 /\ file_ops' = file_ops \o h.file_ops
                 /\ uncaught' = h.uncaught
       ELSE UNCHANGED effects
    /\ pc' = "idle"
    /\ UNCHANGED <<runs, env_key, data_file, external, registry, widgets, mapped>>

(***************************************************************************)
(* Widget interactions: each one changes a widget's value and makes        *)
(* Streamlit run the script again, in a fresh namespace.                   *)
(***************************************************************************)
Rerun ==
    /\ pc = "idle"
    /\ runs < MaxRuns
    /\ pc' = "env"
    /\ runs' = runs + 1
    /\ news_analyst' = Unbound
    /\ data_analyst' = Unbound
    /\ policy_reviewer' = Unbound
    /\ innovation_scout' = Unbound
    /\ sustainability_team' = Unbound
    /\ selected_agent' = Unbound
    /\ banner_class' = ""
    /\ banner_icon' = ""
    /\ rendered' = <<>>
    /\ run_calls' = <<>>
    /\ file_ops' = <<>>
    /\ uncaught' = Unbound
    /\ UNCHANGED <<env_key, data_file, external>>

SelectOperative ==
    /\ \E c \in Range(RadioOptions) \ {agent_choice} : agent_choice' = c
    /\ clicked' = FALSE
    /\ UNCHANGED topic
    /\ Rerun

EnterTopic ==
    /\ \E t \in Topics \ {topic} : topic' = t
    /\ clicked' = FALSE
    /\ UNCHANGED agent_choice
    /\ Rerun

PressLaunch ==
    /\ clicked' = TRUE
    /\ UNCHANGED <<agent_choice, topic>>
    /\ Rerun

\* Another program deletes, replaces or damages the dataset file.
ExternalFileChange ==
    /\ external < MaxExternal
    /\ \E f \in FileStates \ {data_file} : data_file' = f
    /\ external' = external + 1
    /\ UNCHANGED <<pc, runs, env_key, registry, widgets, mapped, effects>>

ScriptStep ==
    \/ LoadEnv
    \/ Bootstrap
    \/ AgentDefinitions
    \/ TaskForceTeam
    \/ MapAgentChoice
    \/ LaunchMission

Next ==
    \/ ScriptStep
    \/ SelectOperative
    \/ EnterTopic
    \/ PressLaunch
    \/ ExternalFileChange

Spec == Init /\ [][Next]_vars

(***************************************************************************)
(* The same script behind a front end that may hand the mapping any value, *)
(* not only one of the radio's five labels.                                *)
(***************************************************************************)
SelectAnyChoice ==
    /\ \E c \in ChoiceUniverse \ {agent_choice} : agent_choice' = c
    /\ clicked' = FALSE
    /\ UNCHANGED topic
    /\ Rerun

NextOpen ==
    \/ ScriptStep
    \/ SelectAnyChoice
    \/ EnterTopic
    \/ PressLaunch
    \/ ExternalFileChange

SpecOpen == Init /\ [][NextOpen]_vars


(***************************************************************************)
(* Vocabulary of the properties.                                           *)
(***************************************************************************)
IsOutcome(o) == o.st # "info"

\* The mission outcomes shown in this run (the start-time note is not one).
Outcomes == SelectSeq(rendered, IsOutcome)

\* The script run that a press of Launch started has run its handler.
LaunchHandled == pc = "idle" /\ clicked /\ env_key

Blank(t) == \A i \in 1..Len(t) : t[i] \in Whitespace

Contains(text, line) ==
    \E i \in 1..(Len(text) - Len(line) + 1) :
        SubSeq(text, i, i + Len(line) - 1) = line

\* The step of the script that handles a press of Launch.
LaunchStep == pc = "launch" /\ pc' = "idle" /\ clicked

\* A returned object that carries no textual content.
NoTextualContent(r) ==
    r.is_none \/ ~r.has_content \/ r.content.is_none \/ r.content.s = ""

\* The run call was made once, on the mapped configuration, with the topic.
RanOnce ==
    /\ Len(run_calls) = 1
    /\ run_calls[1].target = selected_agent
    /\ run_calls[1].arg = topic

(***************************************************************************)
(* C1: a press of Launch with an empty or whitespace-only topic, whatever  *)
(* the selection, calls no agent's or team's run, does not read the        *)
(* dataset, and shows the input-validation warning and nothing else.       *)
(***************************************************************************)
C1_BlankTopicNoDispatch ==
    (LaunchHandled /\ Blank(topic))
        => /\ rendered = <<TargetWarning>>
           /\ run_calls = <<>>
           /\ file_ops \in {<<>>, <<"write">>}
           /\ uncaught = Unbound

C1_Witness ==
    /\ LaunchHandled
    /\ topic = <<" ", "\n">>
    /\ agent_choice = DataAnalystLabel
    /\ rendered = <<TargetWarning>>

C3_NoContentIsEmptyOutcome ==
    (/\ LaunchHandled /\ agent_choice # DataAnalystLabel /\ ~Blank(topic)
     /\ run_calls # <<>>
     /\ ~run_calls[1].outcome.raised
     /\ NoTextualContent(run_calls[1].outcome.value))
        => Outcomes = <<NoContentWarning>>

(***************************************************************************)
(* C4: with a selection other than Data Analyst and a non-blank topic, a   *)
(* run call that returns non-empty content X ends in the report block of   *)
(* the selection with text exactly X; and every launch that completes      *)
(* shows exactly one outcome: a report, the "no content" warning, an error *)
(* message or the input-validation warning.                                *)
(***************************************************************************)
C4_TextOutcomeAndExactlyOne ==
    /\ (LaunchHandled /\ agent_choice # DataAnalystLabel /\ ~Blank(topic))
         => /\ RanOnce
            /\ LET out == run_calls[1].outcome
               IN (~out.raised /\ ~NoTextualContent(out.value))
                    => Outcomes = <<ReportBlock(banner_class, banner_icon,
                                                agent_choice,
                                                <<out.value.content.s>>)>>
    /\ (LaunchHandled /\ uncaught = Unbound)
         => /\ Len(Outcomes) = 1
            /\ \/ Outcomes[1].st = "markdown"
               \/ Outcomes[1] = NoContentWarning
               \/ Outcomes[1].st = "error"
               \/ Outcomes[1] = TargetWarning

C4_Witness ==
    /\ LaunchHandled
    /\ agent_choice = PolicyReviewerLabel
    /\ run_calls # <<>>
    /\ run_calls[1].outcome = RunReturn(RunResponse(PyStr("Y")))
    /\ Len(Outcomes) = 1
    /\ Outcomes[1].text = <<"Y">>


(***************************************************************************)
(* C5: the mapping sends each of the four leaf labels to its own agent and *)
(* its own non-empty banner class and icon, and every other value (the     *)
(* Full Task Force label and any value that is none of the five labels) to *)
(* the team and the team banner; the configuration whose run a launch      *)
(* calls is the one mapped from the current choice.                        *)
(***************************************************************************)
Mapped == env_key /\ pc \in {"launch", "idle"}

ExpectedAgent(choice) ==
    CASE choice = NewsAnalystLabel -> news_analyst
      [] choice = DataAnalystLabel -> data_analyst
      [] choice = PolicyReviewerLabel -> policy_reviewer
      [] choice = InnovationsScoutLabel -> innovation_scout
      [] OTHER -> sustainability_team

BannerOf(choice) ==
    LET m == MapChoice(choice, news_analyst, data_analyst, policy_reviewer,
                       innovation_scout, sustainability_team)
    IN <<m.banner_class, m.banner_icon>>

C5_ResolverTotal ==
    Mapped
        => /\ selected_agent = ExpectedAgent(agent_choice)
           /\ selected_agent # Unbound
           /\ The(selected_agent).kind =
                  (IF agent_choice \in LeafLabels THEN "Agent" ELSE "Team")
           /\ <<banner_class, banner_icon>> = BannerOf(agent_choice)
           /\ banner_class # "" /\ banner_icon # ""
           /\ \A c \in ChoiceUniverse :
                 /\ BannerOf(c)[1] # "" /\ BannerOf(c)[2] # ""
                 /\ c \notin LeafLabels
                      => BannerOf(c) = <<"sustainability-team-banner", "globe">>
                 /\ \A d \in LeafLabels \ {c} :
                       /\ BannerOf(c)[1] # BannerOf(d)[1]
                       /\ BannerOf(c)[2] # BannerOf(d)[2]
           /\ \A i \in 1..Len(run_calls) :
                 run_calls[i].target = ExpectedAgent(agent_choice)

C5_Witness ==
    /\ LaunchHandled
    /\ agent_choice = "Data Scientist"
    /\ run_calls # <<>>
    /\ run_calls[1].target = sustainability_team
    /\ banner_class = "sustainability-team-banner"

(***************************************************************************)
(* C6: the mapping covers exactly the five known labels, and a value that  *)
(* is none of them is refused with a configuration error: the script run   *)
(* ends there, with no configuration selected.                             *)
(***************************************************************************)
C6_UnknownChoiceFailsFast ==
    (env_key /\ agent_choice \notin Range(RadioOptions))
        => /\ pc # "launch"
           /\ selected_agent = Unbound
           /\ pc = "idle" => uncaught # Unbound

(***************************************************************************)
(* C6, amended: the mapping never fails.  Each of the five known labels    *)
(* gets its configuration, and a value that is none of them is mapped,     *)
(* without any error, to the Full Task Force team and the team banner.     *)
(***************************************************************************)
C6_UnknownChoiceDefaultsToTeam ==
    Mapped
        => /\ selected_agent # Unbound
           /\ pc = "launch" => uncaught = Unbound
           /\ agent_choice \notin Range(RadioOptions)
                => /\ selected_agent = sustainability_team
                   /\ The(selected_agent).kind = "Team"
                   /\ banner_class = "sustainability-team-banner"

C6_Witness ==
    /\ pc = "launch"
    /\ agent_choice = ""
    /\ selected_agent = sustainability_team
    /\ selected_agent # Unbound
    /\ uncaught = Unbound


(***************************************************************************)
(* C7: a launch of the Data Analyst with a non-blank topic calls no run,   *)
(* reads the dataset file once and touches nothing else; over a file that  *)
(* parses it shows one report and no error, whichever optional column is   *)
(* missing, and the report has the PM2.5 trend line exactly when the       *)
(* dataset has a PM2.5 column and the CO2 trend line exactly when it has a *)
(* CO2 column.                                                             *)
(***************************************************************************)
DataAnalystLaunch ==
    LaunchStep /\ env_key /\ agent_choice = DataAnalystLabel /\ ~Blank(topic)

C7_LocalAnalysisOnly ==
    [][DataAnalystLaunch
         => /\ run_calls' = <<>>
            /\ data_file' = data_file
            /\ file_ops' = file_ops \o <<"read">>
            /\ data_file.parses
                 => /\ uncaught' = Unbound
                    /\ Len(SelectSeq(rendered', IsOutcome)) = 1
                    /\ LET report == SelectSeq(rendered', IsOutcome)[1]
                       IN /\ report.st = "markdown"
                          /\ report.banner_class = "data-analyst-banner"
                          /\ Contains(report.text, <<"Average PM2.5: ">>)
                               <=> "PM2.5" \in Range(data_file.header)
                          /\ Contains(report.text, <<"Average CO2: ">>)
                               <=> "CO2" \in Range(data_file.header)
                          /\ data_file = to_csv(df_mock)
                               => /\ Contains(report.text,
                                       <<"Average PM2.5: ", "4", "8", ".", "3", "3",
                                         " ug/m3">>)
                                  /\ Contains(report.text,
                                       <<"Average CO2: ", "3", "9", "5", ".", "0",
                                         "0", " ppm">>)]_vars

C7_Witness ==
    /\ LaunchHandled
    /\ agent_choice = DataAnalystLabel
    /\ ~Blank(topic)
    /\ run_calls = <<>>
    /\ "read" \in Range(file_ops)
    /\ Len(Outcomes) = 1
    /\ Outcomes[1].st = "markdown"
    /\ Contains(Outcomes[1].text, <<"Average PM2.5: ">>)
    /\ ~Contains(Outcomes[1].text, <<"Average CO2: ">>)

(***************************************************************************)
(* C8: a launch of the Data Analyst with a non-blank topic while the       *)
(* dataset file is missing or corrupt is fatal: the exception ends the     *)
(* script run and is not turned into a displayed Mission Error.            *)
(***************************************************************************)
DatasetUnreadable == ~data_file.exists \/ ~data_file.parses

C8_UnreadableDatasetIsFatal ==
    [][(DataAnalystLaunch /\ DatasetUnreadable)
         => /\ uncaught' # Unbound
            /\ \A i \in 1..Len(rendered') : rendered'[i].st # "error"]_vars

(***************************************************************************)
(* C8, amended: a launch of the Data Analyst with a non-blank topic while  *)
(* the dataset file is missing or corrupt is recoverable: the read's       *)
(* exception is caught by the handler and shown as the Mission Error       *)
(* message with the exception's text, nothing escapes, no run is called,   *)
(* and the script run ends normally.                                       *)
(***************************************************************************)
C8_UnreadableDatasetIsShown ==
    [][(DataAnalystLaunch /\ DatasetUnreadable)
         => /\ uncaught' = Unbound
            /\ pc' = "idle"
            /\ run_calls' = <<>>
            /\ SelectSeq(rendered', IsOutcome)
                 = <<MissionError(Exc(IF data_file.exists THEN "ParserError"
                                      ELSE "FileNotFoundError",
                                      IF data_file.exists
                                      THEN "Error tokenizing data"
                                      ELSE "No such file or directory"))>>]_vars

C8_Witness ==
    /\ LaunchHandled
    /\ agent_choice = DataAnalystLabel
    /\ ~Blank(topic)
    /\ ~data_file.exists
    /\ file_ops = <<"read">>
    /\ uncaught = Unbound
    /\ Outcomes = <<MissionError(Exc("FileNotFoundError",
                                     "No such file or directory"))>>

(***************************************************************************)
(* C9: in any sequence of script runs the bootstrap writes the sample      *)
(* (columns Year, PM2.5 and CO2, three rows) only when no file is at the   *)
(* path; when a file is there it writes nothing and leaves the file as it  *)
(* is; and no other step of the script, the Data Analyst's analysis        *)
(* included, writes the file.                                              *)
(***************************************************************************)
BootstrapStep == pc = "bootstrap" /\ pc' = "agents"

ScriptOrUserStep == external' = external

C9_BootstrapIdempotent ==
    [][/\ (BootstrapStep /\ ~data_file.exists)
            => /\ data_file'.exists /\ data_file'.parses
               /\ data_file'.header = <<"Year", "PM2.5", "CO2">>
               /\ Len(data_file'.rows) >= 3
               /\ data_file'.rows[1] = <<2021, 55, 400>>
               /\ file_ops' = file_ops \o <<"write">>
               /\ BootstrapFile(data_file') = data_file'
       /\ (BootstrapStep /\ data_file.exists)
            => data_file' = data_file /\ file_ops' = file_ops
       /\ (ScriptOrUserStep /\ ~BootstrapStep)
            => /\ data_file' = data_file
               /\ pc' # "env" => \E k \in 0..1 :
                                   file_ops' = file_ops \o [i \in 1..k |-> "read"]
       ]_vars

C9_Witness ==
    /\ runs = 2
    /\ pc = "agents"
    /\ external = 0
    /\ file_ops = <<>>
    /\ data_file = to_csv(df_mock)

(***************************************************************************)
(* C10: the four agents and the team are constructed once, at process      *)
(* start, and no render cycle, selection or dispatch rebuilds them: every  *)
(* configuration the script holds is the one the first run constructed.    *)
(***************************************************************************)
Configurations ==
    news_analyst \cup data_analyst \cup policy_reviewer \cup innovation_scout
      \cup sustainability_team

TeamMembersExact ==
    \A t \in sustainability_team :
       /\ t.kind = "Team" /\ t.mode = "collaborate"
       /\ Len(t.members) = 4
       /\ <<Some(t.members[1]), Some(t.members[2]), Some(t.members[3]),
            Some(t.members[4])>>
            = <<news_analyst, data_analyst, policy_reviewer, innovation_scout>>
       /\ [i \in 1..4 |-> t.members[i].name]
            = <<"News Analyst", "Data Analyst", "Policy Reviewer",
                "Innovations Scout">>
       /\ \A i \in 1..4 : t.members[i].kind = "Agent"

C10_BuiltOnce ==
    /\ \A a \in Configurations : a.built_in_run = 1
    /\ TeamMembersExact

(***************************************************************************)
(* C10, amended: every script run (each render cycle) constructs the four  *)
(* agents and the team anew, with the same contents each time; within a    *)
(* run no step of the script changes a configuration once it is            *)
(* constructed; and whenever the team exists its members are exactly the   *)
(* run's four leaf agents in the order news analyst, data analyst, policy  *)
(* reviewer, innovation scout: never empty, never containing a team.       *)
(***************************************************************************)
TeamWellFormed ==
    /\ \A a \in Configurations : a.built_in_run = runs
    /\ news_analyst \subseteq {NewsAnalystAgent(runs)}
    /\ data_analyst \subseteq {DataAnalystAgent(runs)}
    /\ policy_reviewer \subseteq {PolicyReviewerAgent(runs)}
    /\ innovation_scout \subseteq {InnovationScoutAgent(runs)}
    /\ TeamMembersExact

NotMutatedWithinRun ==
    runs' = runs
        => /\ news_analyst # Unbound => news_analyst' = news_analyst
           /\ data_analyst # Unbound => data_analyst' = data_analyst
           /\ policy_reviewer # Unbound => policy_reviewer' = policy_reviewer
           /\ innovation_scout # Unbound => innovation_scout' = innovation_scout
           /\ sustainability_team # Unbound
                => sustainability_team' = sustainability_team

C10_RebuiltEachRun == []TeamWellFormed /\ [][NotMutatedWithinRun]_vars

C10_Witness ==
    /\ runs = 3
    /\ pc = "idle"
    /\ clicked
    /\ run_calls # <<>>
    /\ sustainability_team = Some(SustainabilityTeam(NewsAnalystAgent(3),
                                     DataAnalystAgent(3), PolicyReviewerAgent(3),
                                     InnovationScoutAgent(3), 3))

=============================================================================
